---- MODULE Spec2Model ----
(***************************************************************************)
(* A model of jobs_done10's JobsDoneJob.CreateFromYAML (validation, branch *)
(* filter, matrix expansion, template resolution, conditional options) and *)
(* of JobGeneratorConfigurator.Configure as exercised by its test.         *)
(*                                                                         *)
(* A Python string is a sequence of atoms.  The atoms ":", "-", ",", "{",  *)
(* "}" are the characters the code splits on or that str.format reads;     *)
(* the atoms ": ", "- ", "  ", "'", "[]", "\n" are the YAML syntax that     *)
(* yaml.dump writes; every other atom is a word free of those characters.  *)
(***************************************************************************)
EXTENDS Integers, Sequences, FiniteSets, TLC

\* Largest number of non-matrix entries in a generated jobs_done document.
MaxEntries == 2

\* Largest number of option fields set on a job handed to Configure directly.
MaxFields == 2

\* Largest number of Configure calls made on one generator.
MaxCalls == 2

----------------------------------------------------------------------------
\* Python values: str, list, dict and None, in one record shape.  A dict is
\* a set of <<key, value>> pairs with distinct keys (it keeps no order).

None == [t |-> "none", s |-> <<>>, items |-> <<>>, ents |-> {}]

PyStr(s) == [t |-> "str", s |-> s, items |-> <<>>, ents |-> {}]

PyList(items) == [t |-> "list", s |-> <<>>, items |-> items, ents |-> {}]

PyDict(ents) == [t |-> "dict", s |-> <<>>, items |-> <<>>, ents |-> ents]

Keys(d) == {e[1] : e \in d.ents}

Get(d, k) == (CHOOSE e \in d.ents : e[1] = k)[2]

\* d[k] = v on a dict: the key's old pair, if any, is replaced.
Put(d, k, v) == PyDict({e \in d.ents : e[1] # k} \cup {<<k, v>>})

Last(s) == s[Len(s)]

IndexOf(s, a) == CHOOSE i \in 1..Len(s) : s[i] = a /\ \A j \in 1..(i - 1) : s[j] # a

RECURSIVE Split(_, _)
\* str.split(sep): the pieces between the occurrences of sep, at least one.
Split(s, sep) ==
    IF \A i \in 1..Len(s) : s[i] # sep
    THEN <<s>>
    ELSE LET i == IndexOf(s, sep)
         IN  <<SubSeq(s, 1, i - 1)>> \o Split(SubSeq(s, i + 1, Len(s)), sep)

\* str.rsplit(sep, 1): split once, at the last occurrence of sep.
RSplit1(s, sep) ==
    IF \A i \in 1..Len(s) : s[i] # sep
    THEN <<s>>
    ELSE LET i == CHOOSE j \in 1..Len(s) :
                      s[j] = sep /\ \A k \in (j + 1)..Len(s) : s[k] # sep
         IN  <<SubSeq(s, 1, i - 1), SubSeq(s, i + 1, Len(s))>>

RECURSIVE Join(_, _)
Join(parts, sep) ==
    IF parts = <<>> THEN <<>>
    ELSE IF Len(parts) = 1 THEN parts[1]
    ELSE parts[1] \o <<sep>> \o Join(Tail(parts), sep)

----------------------------------------------------------------------------
\* The option tables.

\* The generator options with the matrix among them.
GENERATOR_OPTIONS_WithMatrix ==
    {<< <<"boosttest_patterns">>, "list" >>, << <<"build_batch_commands">>, "list" >>,
     << <<"build_shell_commands">>, "list" >>, << <<"description_regex">>, "str" >>,
     << <<"jsunit_patterns">>, "list" >>, << <<"junit_patterns">>, "list" >>,
     << <<"notify_stash">>, "dict" >>, << <<"parameters">>, "list" >>,
     << <<"matrix">>, "dict" >>}

\* Option name -> expected type, the options forwarded to generators.
GENERATOR_OPTIONS ==
    {<< <<"boosttest_patterns">>, "list" >>, << <<"build_batch_commands">>, "list" >>,
     << <<"build_shell_commands">>, "list" >>, << <<"description_regex">>, "str" >>,
     << <<"jsunit_patterns">>, "list" >>, << <<"junit_patterns">>, "list" >>,
     << <<"notify_stash">>, "dict" >>, << <<"parameters">>, "list" >>}

\* GENERATOR_OPTIONS.copy() updated with the two control options.
PARSEABLE_OPTIONS ==
    {e \in GENERATOR_OPTIONS : e[1] \notin {<<"branch_patterns">>, <<"matrix">>}}
        \cup {<< <<"branch_patterns">>, "list" >>, << <<"matrix">>, "dict" >>}

OptionNames(table) == {e[1] : e \in table}

ExpectedType(table, name) == (CHOOSE e \in table : e[1] = name)[2]

----------------------------------------------------------------------------
\* str.format(**format_dict) on the dumped document.

FormatOk(s) == [err |-> "", s |-> s]

FormatError(kind) == [err |-> kind, s |-> <<>>]

FormatCons(head, rest) == IF rest.err # "" THEN rest ELSE FormatOk(head \o rest.s)

IsBrace(a) == a \in {"{", "}"}

RECURSIVE Format(_, _)
\* "{{" and "}}" are escapes, "{field}" is looked up in format_dict (a field
\* with a ":" carries a format specification, which a str value refuses
\* unless it is empty), "{}" takes a positional argument and there is none,
\* and a brace with no partner is an error.  The first failure, reading
\* left to right, is the one raised.
Format(s, format_dict) ==
    IF \A i \in 1..Len(s) : ~IsBrace(s[i]) THEN FormatOk(s)
    ELSE LET b      == CHOOSE i \in 1..Len(s) :
                           IsBrace(s[i]) /\ \A j \in 1..(i - 1) : ~IsBrace(s[j])
             before == SubSeq(s, 1, b - 1)
             from   == SubSeq(s, b, Len(s))
             After(n) == Format(SubSeq(from, n + 1, Len(from)), format_dict)
         IN  IF Len(from) >= 2 /\ from[2] = from[1]
             THEN FormatCons(before \o <<from[1]>>, After(2))
             ELSE IF from[1] = "}" \/ \A i \in 2..Len(from) : from[i] # "}"
             THEN FormatError("ValueError")
             ELSE LET j     == IndexOf(from, "}")
                      field == SubSeq(from, 2, j - 1)
                      name  == Split(field, ":")[1]
                  IN  IF name = <<>> THEN FormatError("IndexError")
                      ELSE IF name \notin Keys(format_dict) THEN FormatError("KeyError")
                      ELSE IF Len(field) > Len(name) + 1 THEN FormatError("ValueError")
                      ELSE FormatCons(before \o Get(format_dict, name).s, After(j))

----------------------------------------------------------------------------
\* yaml.dump(jd_data, default_flow_style=False) and yaml.load of its text.

\* The atoms in the order of their first characters' codes.
Alphabet ==
    <<"\n", "  ", "'", ",", "- ", "-", ".*", ": ", ":", "[]",
      "bogus_option", "boosttest_patterns", "branch", "branch_patterns",
      "build_batch_commands", "build_shell_commands", "description_regex",
      "earth", "io", "jsunit_patterns", "junit_patterns", "mars", "master",
      "matrix", "moon", "name", "notify_stash", "parameters", "planet",
      "release", "repo", "venus", "x", "xml", "y", "{", "}">>

Rank(a) == IndexOf(Alphabet, a)

RECURSIVE StrLess(_, _)
StrLess(a, b) ==
    IF b = <<>> THEN FALSE
    ELSE IF a = <<>> THEN TRUE
    ELSE IF a[1] # b[1] THEN Rank(a[1]) < Rank(b[1])
    ELSE StrLess(Tail(a), Tail(b))

RECURSIVE SortedKeys(_)
\* The keys of a mapping, sorted, as the representer emits them.
SortedKeys(S) ==
    IF S = {} THEN <<>>
    ELSE LET k == CHOOSE x \in S : \A y \in S \ {x} : StrLess(x, y)
         IN  <<k>> \o SortedKeys(S \ {k})

\* A scalar that is empty or starts with a flow indicator is single-quoted.
Quote(s) ==
    IF s = <<>> \/ s[1] \in {"{", "}", ",", "[]", "'"}
    THEN <<"'">> \o s \o <<"'">>
    ELSE s

Unquote(s) ==
    IF Len(s) >= 2 /\ s[1] = "'" /\ Last(s) = "'"
    THEN SubSeq(s, 2, Len(s) - 1)
    ELSE s

Indent(n) == [i \in 1..n |-> "  "]

RECURSIVE DumpLines(_, _)
\* The lines of a block mapping at indentation n: "key: scalar"; "key:" and
\* one "- item" line per item at the key's own indentation; "key:" and the
\* nested mapping one level in; "key: []" and "key: {}" when empty.
DumpLines(d, n) ==
    LET keys == SortedKeys(Keys(d))
        Entry(k) ==
            LET v   == Get(d, k)
                hdr == Indent(n) \o Quote(k) \o <<": ">>
            IN  CASE v.t = "list" /\ v.items = <<>> -> << hdr \o <<"[]">> >>
                  [] v.t = "list" ->
                        <<hdr>> \o [i \in 1..Len(v.items) |->
                                       Indent(n) \o <<"- ">> \o Quote(v.items[i].s)]
                  [] v.t = "dict" /\ v.ents = {} -> << hdr \o <<"{", "}">> >>
                  [] v.t = "dict" -> <<hdr>> \o DumpLines(v, n + 1)
                  [] OTHER -> << hdr \o Quote(v.s) >>
        RECURSIVE All(_)
        All(i) == IF i > Len(keys) THEN <<>> ELSE Entry(keys[i]) \o All(i + 1)
    IN  All(1)

\* yaml.dump(...)[:-1]: the lines joined by newlines, the last newline cut.
Dump(d) == Join(DumpLines(d, 0), "\n")

IndentOf(line) ==
    IF \A i \in 1..Len(line) : line[i] = "  " THEN Len(line)
    ELSE (CHOOSE i \in 1..Len(line) :
              line[i] # "  " /\ \A j \in 1..(i - 1) : line[j] = "  ") - 1

IsItem(line, n) == IndentOf(line) = n /\ Len(line) > n /\ line[n + 1] = "- "

IsHeader(line, n) == IndentOf(line) = n /\ ~IsItem(line, n)

RECURSIVE ParseMap(_, _)
\* The block mapping written on lines at indentation n.  A key met again
\* further down replaces the earlier one.
ParseMap(lines, n) ==
    IF lines = <<>> THEN PyDict({})
    ELSE LET m    == CHOOSE j \in 1..Len(lines) :
                         /\ \A i \in 2..j : ~IsHeader(lines[i], n)
                         /\ (j = Len(lines) \/ IsHeader(lines[j + 1], n))
             body == SubSeq(lines, 2, m)
             rest == ParseMap(SubSeq(lines, m + 1, Len(lines)), n)
             text == SubSeq(lines[1], n + 1, Len(lines[1]))
             i    == IndexOf(text, ": ")
             key  == Unquote(SubSeq(text, 1, i - 1))
             val  == SubSeq(text, i + 1, Len(text))
             value ==
                 CASE body # <<>> /\ IsItem(body[1], n) ->
                        PyList([j \in 1..Len(body) |->
                                   PyStr(Unquote(SubSeq(body[j], n + 2, Len(body[j]))))])
                   [] body # <<>> -> ParseMap(body, n + 1)
                   [] val = <<"[]">> -> PyList(<<>>)
                   [] val = <<"{", "}">> -> PyDict({})
                   [] val = <<>> -> None
                   [] OTHER -> PyStr(Unquote(val))
         IN  IF key \in Keys(rest) THEN rest ELSE Put(rest, key, value)

\* yaml.load(text) of a document yaml.dump wrote.
Load(text) == ParseMap(Split(text, "\n"), 0)

----------------------------------------------------------------------------
\* JobsDoneJob and the steps of CreateFromYAML, as operators.

\* A job before CreateFromYAML attaches a repository to it.
NoRepository == [name |-> <<>>, branch |-> <<>>]

\* Only the generator options initialised, the control options left out.
JobsDoneJob_init_GeneratorOnly ==
    [matrix_row |-> None,
     repository |-> NoRepository,
     options    |-> [n \in OptionNames(GENERATOR_OPTIONS) |-> None]]

\* JobsDoneJob(): matrix_row and every parseable option start as None.
JobsDoneJob_init ==
    [matrix_row |-> None,
     repository |-> NoRepository,
     options    |-> [n \in OptionNames(PARSEABLE_OPTIONS) |-> None]]

\* setattr(job, option_name, option_value)
SetAttr(job, option_name, option_value) ==
    [job EXCEPT !.options = (option_name :> option_value) @@ @]

RECURSIVE YamlLoadBase(_)
\* yaml.load(yaml_contents, Loader=_JobsDoneYamlLoader) or {}: the entries
\* of the document, in the order written, put into a dict.
YamlLoadBase(entries) ==
    IF entries = <<>> THEN PyDict({})
    ELSE Put(YamlLoadBase(SubSeq(entries, 1, Len(entries) - 1)),
             Last(entries).key, Last(entries).value)

\* All the orders in which a dict may hand out the keys S.
Orders(S) ==
    {o \in [1..Cardinality(S) -> S] : \A i, j \in DOMAIN o : i # j => o[i] # o[j]}

NoProblem == [exc |-> "", option_name |-> <<>>, obtained |-> "", expected |-> ""]

RECURSIVE ValidateItemsNoTypeCheck(_, _)
\* The search with the comparison of the types left out.
ValidateItemsNoTypeCheck(jd_data, order) ==
    IF order = <<>> THEN NoProblem
    ELSE LET option_name == Last(RSplit1(order[1], ":"))
         IN  IF option_name \notin OptionNames(PARSEABLE_OPTIONS)
             THEN [exc |-> "UnknownJobsDoneFileOption", option_name |-> option_name,
                   obtained |-> "", expected |-> ""]
             ELSE ValidateItemsNoTypeCheck(jd_data, Tail(order))

RECURSIVE ValidateItems(_, _)
\* The search for unknown options and type errors, over the items in the
\* order the dict hands them out: the first item at fault raises.
ValidateItems(jd_data, order) ==
    IF order = <<>> THEN NoProblem
    ELSE LET option_name   == Last(RSplit1(order[1], ":"))
             obtained_type == Get(jd_data, order[1]).t
         IN  IF option_name \notin OptionNames(PARSEABLE_OPTIONS)
             THEN [exc |-> "UnknownJobsDoneFileOption", option_name |-> option_name,
                   obtained |-> "", expected |-> ""]
             ELSE IF obtained_type # ExpectedType(PARSEABLE_OPTIONS, option_name)
             THEN [exc |-> "JobsDoneFileTypeError", option_name |-> option_name,
                   obtained |-> obtained_type,
                   expected |-> ExpectedType(PARSEABLE_OPTIONS, option_name)]
             ELSE ValidateItems(jd_data, Tail(order))

RECURSIVE FullMatch(_, _)
\* The pattern matches the string from its start to its end.
FullMatch(pattern, string) ==
    IF pattern = <<>> THEN string = <<>>
    ELSE IF pattern[1] = ".*"
    THEN \E k \in 0..Len(string) :
             FullMatch(Tail(pattern), SubSeq(string, k + 1, Len(string)))
    ELSE /\ string # <<>>
         /\ string[1] = pattern[1]
         /\ FullMatch(Tail(pattern), Tail(string))

RECURSIVE ReMatch(_, _)
\* re.match(pattern, string): the pattern matches at the start of the string;
\* what follows the match is not looked at.  ".*" matches any run of atoms,
\* every other atom matches itself.
ReMatch(pattern, string) ==
    IF pattern = <<>> THEN TRUE
    ELSE IF pattern[1] = ".*"
    THEN \E k \in 0..Len(string) :
             ReMatch(Tail(pattern), SubSeq(string, k + 1, Len(string)))
    ELSE /\ string # <<>>
         /\ string[1] = pattern[1]
         /\ ReMatch(Tail(pattern), Tail(string))

\* jd_data.get(key, default)
GetDefault(d, k, default) == IF k \in Keys(d) THEN Get(d, k) ELSE default

BranchPatterns(jd_data) ==
    GetDefault(jd_data, <<"branch_patterns">>, PyList(<<PyStr(<<".*">>)>>))

\* any([re.match(pattern, repository.branch) for pattern in branch_patterns])
BranchAccepted(jd_data, branch) ==
    LET branch_patterns == BranchPatterns(jd_data).items
    IN  \E i \in 1..Len(branch_patterns) : ReMatch(branch_patterns[i].s, branch)

\* zip(*lists): the i-th items together, as many tuples as the shortest list.
ProductZip(lists) ==
    IF lists = <<>> THEN << <<>> >>
    ELSE LET n == CHOOSE k \in 0..Len(lists[1]) :
                      /\ \A i \in 1..Len(lists) : Len(lists[i]) >= k
                      /\ \E i \in 1..Len(lists) : Len(lists[i]) = k
         IN  [r \in 1..n |-> [i \in 1..Len(lists) |-> lists[i][r]]]

RECURSIVE Product(_)
\* itertools.product(*lists): every tuple of one item per list, the last
\* list's items changing fastest.
Product(lists) ==
    IF lists = <<>> THEN << <<>> >>
    ELSE LET rest == Product(Tail(lists))
             RECURSIVE From(_)
             From(i) ==
                 IF i > Len(lists[1]) THEN <<>>
                 ELSE [j \in 1..Len(rest) |-> <<lists[1][i]>> \o rest[j]] \o From(i + 1)
         IN  From(1)

\* MatrixRow(names, values).__dict: each name with its value split at the
\* commas.
MatrixRow(names, values) ==
    PyDict({<<names[i],
              PyList([j \in 1..Len(Split(values[i].s, ",")) |->
                         PyStr(Split(values[i].s, ",")[j])])>> : i \in 1..Len(names)})

\* MatrixRow.AsDict: each name with the first of its values.
AsDict(row) == PyDict({<<e[1], e[2].items[1]>> : e \in row.ents})

InList(v, list) == \E i \in 1..Len(list.items) : list.items[i] = v

\* The condition compared with the first of the row's values only.
MatchOneFirstValue(row, condition) ==
    LET parts == Split(condition, "-")
    IN  IF Len(parts) # 2 THEN "ValueError"
        ELSE IF parts[1] \notin Keys(row) THEN "KeyError"
        ELSE IF Get(row, parts[1]).items[1] = PyStr(parts[2]) THEN "True"
        ELSE "False"

\* _Match(matrix_row, condition): "True", "False", or the exception raised
\* by the unpacking of condition.split('-') or by matrix_row[variable_name].
MatchOne(row, condition) ==
    LET parts == Split(condition, "-")
    IN  IF Len(parts) # 2 THEN "ValueError"
        ELSE IF parts[1] \notin Keys(row) THEN "KeyError"
        ELSE IF InList(PyStr(parts[2]), Get(row, parts[1])) THEN "True"
        ELSE "False"

\* MatrixRow.Match: all([_Match(self.__dict, i) for i in conditions]); the
\* list is built in full, so the first condition that raises, raises.
Match(row, conditions) ==
    LET outcome == [i \in 1..Len(conditions) |-> MatchOne(row, conditions[i])]
        raised  == {i \in 1..Len(conditions) : outcome[i] \notin {"True", "False"}}
    IN  IF raised # {}
        THEN outcome[CHOOSE i \in raised : \A j \in raised : i <= j]
        ELSE IF \A i \in 1..Len(conditions) : outcome[i] = "True" THEN "True"
        ELSE "False"

\* names = matrix_dict.keys(), in the order the dict hands them out, and
\* one MatrixRow per element of it.product(*matrix_dict.values()).
ValueCombinations(matrix_dict, names) ==
    Product([i \in 1..Len(names) |-> Get(matrix_dict, names[i]).items])

CreateMatrixRows(matrix_dict, names) ==
    LET value_combinations == ValueCombinations(matrix_dict, names)
    IN  [r \in 1..Len(value_combinations) |-> MatrixRow(names, value_combinations[r])]

\* format_dict: branch and name of the repository, updated with the row.
FormatDict(repository, row) ==
    LET base == PyDict({<< <<"branch">>, PyStr(repository.branch) >>,
                        << <<"name">>, PyStr(repository.name) >>})
        over == AsDict(row)
    IN  PyDict({e \in base.ents : e[1] \notin Keys(over)} \cup over.ents)

----------------------------------------------------------------------------
\* The documents and repositories the checks draw from.

S(word) == PyStr(<<word>>)

Entry(key, value) == [key |-> key, value |-> value]

\* Top-level entries other than the matrix.
EntryPool ==
    {Entry(<<"junit_patterns">>,
           PyList(<<PyStr(<<"{", "planet", "}", "-", "{", "branch", "}">>)>>)),
     Entry(<<"planet", "-", "earth", ":", "junit_patterns">>, PyList(<<S("x")>>)),
     Entry(<<"planet", "-", "{", "planet", "}", ":", "junit_patterns">>,
           PyList(<<S("y")>>)),
     Entry(<<"planet", "-", "venus", ":", "moon", "-", "io", ":", "description_regex">>,
           S("xml")),
     Entry(<<"description_regex">>, PyStr(<<"{", "name", "}", "{", "{", "x">>)),
     Entry(<<"description_regex">>, PyList(<<S("x")>>)),
     Entry(<<"bogus_option">>, PyList(<<S("x")>>)),
     Entry(<<"branch_patterns">>, PyList(<<S("x"), S("release")>>)),
     Entry(<<"notify_stash">>, PyDict({}))}

\* The matrix entry of a document, if it has one.
MatrixPool ==
    {PyDict({<< <<"planet">>, PyList(<<S("earth"), S("mars")>>) >>}),
     PyDict({<< <<"planet">>, PyList(<<S("earth"), PyStr(<<"mars", ",", "venus">>)>>) >>,
             << <<"moon">>, PyList(<<S("io"), S("x")>>) >>}),
     PyDict({<< <<"planet">>, PyList(<<>>) >>})}

RECURSIVE Bodies(_)
\* The sequences of at most n distinct entries of the pool.
Bodies(n) ==
    IF n = 0 THEN {<<>>}
    ELSE LET shorter == Bodies(n - 1)
         IN  shorter \cup
             {Append(b, e) : b \in {x \in shorter : Len(x) = n - 1},
                             e \in EntryPool}

Documents ==
    LET bodies == {b \in Bodies(MaxEntries) :
                      \A i, j \in 1..Len(b) : i # j => b[i] # b[j]}
    IN  bodies \cup {Append(b, Entry(<<"matrix">>, m)) : b \in bodies, m \in MatrixPool}

Repositories ==
    {[name |-> <<"repo">>, branch |-> <<"master">>],
     [name |-> <<"repo">>, branch |-> <<"release", "-", "x">>]}

----------------------------------------------------------------------------
\* The state.

VARIABLES
    yaml_contents,      \* CreateFromYAML's argument: [present, entries]
    repository,         \* CreateFromYAML's argument
    pc,                 \* where CreateFromYAML is
    jd_data,            \* the loaded document
    matrix_rows,        \* the MatrixRows, in order
    value_combinations, \* the value tuple each row was made from
    row,                \* the index of the row the loop is at
    jobs_done_jobs,     \* the jobs made so far
    jd_formatted_data,  \* the document resolved for the current row
    todo,               \* the keys of jd_formatted_data not yet handed out
    formatted,          \* per job: the resolved document (None: not resolved)
    applied,            \* per job: the keys whose value was set on it
    result,             \* what CreateFromYAML returned or raised
    generator,          \* the methods the generator has
    cfg_job,            \* the job handed to Configure
    calls,              \* per method: the arguments of its calls in the last Configure
    n_calls,            \* Configure calls made
    n_resets,           \* Reset calls seen over all Configure calls
    cfg_result          \* what the last Configure call did

create_vars ==
    <<yaml_contents, repository, pc, jd_data, matrix_rows, value_combinations, row,
      jobs_done_jobs, jd_formatted_data, todo, formatted, applied, result>>

cfg_vars == <<generator, cfg_job, calls, n_calls, n_resets, cfg_result>>

vars == <<create_vars, cfg_vars>>

Running == [kind |-> "running", jobs |-> <<>>, problem |-> NoProblem]

Return(jobs) == [kind |-> "return", jobs |-> jobs, problem |-> NoProblem]

Raise(problem) == [kind |-> "raise", jobs |-> <<>>, problem |-> problem]

RaiseExc(exc) == Raise([NoProblem EXCEPT !.exc = exc])

NoCalls == [m \in {} |-> <<>>]

CfgIdle ==
    /\ generator = {}
    /\ cfg_job = JobsDoneJob_init
    /\ calls = NoCalls
    /\ n_calls = 0
    /\ n_resets = 0
    /\ cfg_result = [kind |-> "none", option |-> <<>>]

Init ==
    /\ yaml_contents \in
           {[present |-> FALSE, entries |-> <<>>]}
               \cup {[present |-> TRUE, entries |-> d] : d \in Documents}
    /\ repository \in Repositories
    /\ pc = "load"
    /\ jd_data = PyDict({})
    /\ matrix_rows = <<>>
    /\ value_combinations = <<>>
    /\ row = 0
    /\ jobs_done_jobs = <<>>
    /\ jd_formatted_data = None
    /\ todo = {}
    /\ formatted = <<>>
    /\ applied = <<>>
    /\ result = Running
    /\ CfgIdle

----------------------------------------------------------------------------
\* CreateFromYAML, step by step.

\* if yaml_contents is None: return []; otherwise load the document.
LoadYaml ==
    /\ pc = "load"
    /\ IF ~yaml_contents.present
       THEN /\ result' = Return(<<>>)
            /\ pc' = "done"
            /\ UNCHANGED jd_data
       ELSE /\ jd_data' = YamlLoadBase(yaml_contents.entries)
            /\ pc' = "validate"
            /\ UNCHANGED result
    /\ UNCHANGED <<yaml_contents, repository, matrix_rows, value_combinations, row,
                   jobs_done_jobs, jd_formatted_data, todo, formatted, applied>>
    /\ UNCHANGED cfg_vars

\* for option_name, option_value in jd_data.iteritems(): ... raise ...
Validate ==
    /\ pc = "validate"
    /\ \E order \in Orders(Keys(jd_data)) :
           LET problem == ValidateItems(jd_data, order)
           IN  IF problem.exc # ""
               THEN result' = Raise(problem) /\ pc' = "done"
               ELSE pc' = "branch" /\ UNCHANGED result
    /\ UNCHANGED <<yaml_contents, repository, jd_data, matrix_rows, value_combinations,
                   row, jobs_done_jobs, jd_formatted_data, todo, formatted, applied>>
    /\ UNCHANGED cfg_vars

\* if not any([re.match(...) ...]): return []
BranchFilter ==
    /\ pc = "branch"
    /\ IF BranchAccepted(jd_data, repository.branch)
       THEN pc' = "matrix" /\ UNCHANGED result
       ELSE result' = Return(<<>>) /\ pc' = "done"
    /\ UNCHANGED <<yaml_contents, repository, jd_data, matrix_rows, value_combinations,
                   row, jobs_done_jobs, jd_formatted_data, todo, formatted, applied>>
    /\ UNCHANGED cfg_vars

\* matrix_rows = cls.CreateMatrixRows(jd_data.get('matrix', {}))
CreateRows ==
    /\ pc = "matrix"
    /\ LET matrix_dict == GetDefault(jd_data, <<"matrix">>, PyDict({}))
       IN  \E names \in Orders(Keys(matrix_dict)) :
               /\ matrix_rows' = CreateMatrixRows(matrix_dict, names)
               /\ value_combinations' =
                      LET vc == ValueCombinations(matrix_dict, names)
                      IN  [r \in 1..Len(vc) |->
                              PyDict({<<names[i], vc[r][i]>> : i \in 1..Len(names)})]
    /\ row' = 1
    /\ pc' = "row"
    /\ UNCHANGED <<yaml_contents, repository, jd_data, jobs_done_jobs,
                   jd_formatted_data, todo, formatted, applied, result>>
    /\ UNCHANGED cfg_vars

\* The head of the loop over the rows: a new job with the repository and
\* the row, and, unless the document is empty, the document resolved for
\* the row.
RowBegin ==
    /\ pc = "row"
    /\ row <= Len(matrix_rows)
    /\ LET i_matrix_row == matrix_rows[row]
           jobs_done_job == [JobsDoneJob_init EXCEPT
                                !.repository = repository,
                                !.matrix_row = AsDict(i_matrix_row)]
           formatted_jd_string ==
               Format(Dump(jd_data), FormatDict(repository, i_matrix_row))
       IN  /\ jobs_done_jobs' = Append(jobs_done_jobs, jobs_done_job)
           /\ applied' = Append(applied, {})
           /\ IF jd_data.ents = {}
              THEN /\ row' = row + 1
                   /\ formatted' = Append(formatted, None)
                   /\ UNCHANGED <<pc, jd_formatted_data, todo, result>>
              ELSE IF formatted_jd_string.err # ""
              THEN /\ result' = RaiseExc(formatted_jd_string.err)
                   /\ pc' = "done"
                   /\ formatted' = Append(formatted, None)
                   /\ UNCHANGED <<row, jd_formatted_data, todo>>
              ELSE /\ jd_formatted_data' = Load(formatted_jd_string.s)
                   /\ formatted' = Append(formatted, jd_formatted_data')
                   /\ todo' = Keys(jd_formatted_data')
                   /\ pc' = "options"
                   /\ UNCHANGED <<row, result>>
    /\ UNCHANGED <<yaml_contents, repository, jd_data, matrix_rows, value_combinations>>
    /\ UNCHANGED cfg_vars

\* One turn of the loop over jd_formatted_data.iteritems(), the dict
\* handing out any key it has not handed out yet; after the last key the
\* loop over the rows goes on.
ApplyOption ==
    /\ pc = "options"
    /\ \E key \in todo :
           LET segments    == Split(key, ":")
               conditions  == SubSeq(segments, 1, Len(segments) - 1)
               option_name == Last(segments)
               matched     == IF Len(segments) > 1
                              THEN Match(matrix_rows[row], conditions)
                              ELSE "True"
               job         == jobs_done_jobs[Len(jobs_done_jobs)]
           IN  IF matched \notin {"True", "False"}
               THEN /\ result' = RaiseExc(matched)
                    /\ pc' = "done"
                    /\ UNCHANGED <<row, jobs_done_jobs, todo, applied>>
               ELSE /\ todo' = todo \ {key}
                    /\ IF matched = "True"
                       THEN /\ jobs_done_jobs' =
                                   [jobs_done_jobs EXCEPT ![Len(jobs_done_jobs)] =
                                       SetAttr(job, option_name,
                                               Get(jd_formatted_data, key))]
                            /\ applied' = [applied EXCEPT ![Len(applied)] = @ \cup {key}]
                       ELSE UNCHANGED <<jobs_done_jobs, applied>>
                    /\ IF todo' = {}
                       THEN row' = row + 1 /\ pc' = "row"
                       ELSE UNCHANGED <<row, pc>>
                    /\ UNCHANGED result
    /\ UNCHANGED <<yaml_contents, repository, jd_data, matrix_rows, value_combinations,
                   jd_formatted_data, formatted>>
    /\ UNCHANGED cfg_vars

\* return jobs_done_jobs
ReturnJobs ==
    /\ pc = "row"
    /\ row > Len(matrix_rows)
    /\ result' = Return(jobs_done_jobs)
    /\ pc' = "done"
    /\ UNCHANGED <<yaml_contents, repository, jd_data, matrix_rows, value_combinations,
                   row, jobs_done_jobs, jd_formatted_data, todo, formatted, applied>>
    /\ UNCHANGED cfg_vars

Next ==
    \/ LoadYaml
    \/ Validate
    \/ BranchFilter
    \/ CreateRows
    \/ RowBegin
    \/ ApplyOption
    \/ ReturnJobs

Spec == Init /\ [][Next]_vars

----------------------------------------------------------------------------
\* JobGeneratorConfigurator.Configure(generator, job), after section 4.7 of
\* the specification and the test that calls it.

\* The method a generator has for an option.
MethodName(option_name) == <<"Set">> \o option_name

Reset == <<"Reset">>

\* The methods of the generators tried, Reset apart (every generator has it).
GeneratorPool ==
    {{},
     {MethodName(n) : n \in {<<"junit_patterns">>, <<"description_regex">>}},
     {MethodName(n) : n \in OptionNames(PARSEABLE_OPTIONS) \ {<<"matrix">>, <<"branch_patterns">>}},
     {MethodName(n) : n \in OptionNames(PARSEABLE_OPTIONS)}}

\* The values a test gives an option of a job.
FieldValues == {S("x"), S("y")}

Populated(job, names) == {n \in names : n \in DOMAIN job.options /\ job.options[n] # None}

\* Wrapped(*args): one more call of the method is counted.
Wrapped(counted, method, args) ==
    IF method \in DOMAIN counted
    THEN [counted EXCEPT ![method] = Append(@, args)]
    ELSE (method :> <<args>>) @@ counted

RECURSIVE Forward(_, _, _, _)
\* The options, in the order given, forwarded to the generator's methods:
\* [counted, failed], failed the option whose method the generator lacks.
Forward(gen, job, order, counted) ==
    IF order = <<>> THEN [counted |-> counted, failed |-> <<>>]
    ELSE IF MethodName(order[1]) \notin gen
    THEN [counted |-> counted, failed |-> order[1]]
    ELSE Forward(gen, job, Tail(order),
                 Wrapped(counted, MethodName(order[1]), job.options[order[1]]))

RECURSIVE ForwardAndReset(_, _, _, _)
ForwardAndReset(gen, job, order, counted) ==
    IF order = <<>> THEN [counted |-> counted, failed |-> <<>>]
    ELSE IF MethodName(order[1]) \notin gen
    THEN [counted |-> counted, failed |-> order[1]]
    ELSE ForwardAndReset(gen, job, Tail(order),
             Wrapped(Wrapped(counted, MethodName(order[1]), job.options[order[1]]),
                     Reset, <<>>))

\* Reset called after each option forwarded, not once.
ConfigureResetPerOption(gen, job, order) == ForwardAndReset(gen, job, order, NoCalls)

\* An option whose method the generator lacks is passed over.
ConfigureSkipMissing(gen, job, order) ==
    Forward(gen, job, SelectSeq(order, LAMBDA n : MethodName(n) \in gen),
            Wrapped(NoCalls, Reset, <<>>))

\* Configure: Reset once, then every populated generator option forwarded.
Configure(gen, job, order) == Forward(gen, job, order, Wrapped(NoCalls, Reset, <<>>))

CreateIdle ==
    /\ yaml_contents = [present |-> FALSE, entries |-> <<>>]
    /\ repository = NoRepository
    /\ pc = "idle"
    /\ jd_data = PyDict({})
    /\ matrix_rows = <<>>
    /\ value_combinations = <<>>
    /\ row = 0
    /\ jobs_done_jobs = <<>>
    /\ jd_formatted_data = None
    /\ todo = {}
    /\ formatted = <<>>
    /\ applied = <<>>
    /\ result = Running

InitConfigure ==
    /\ CreateIdle
    /\ generator \in GeneratorPool
    /\ cfg_job = JobsDoneJob_init
    /\ calls = NoCalls
    /\ n_calls = 0
    /\ n_resets = 0
    /\ cfg_result = [kind |-> "none", option |-> <<>>]

\* jobs_done_file.<option> = value, as the test does between the calls;
\* the ExpectedCalls block of the call before has ended, its counts with it.
SetOption ==
    /\ pc = "idle"
    /\ Cardinality(Populated(cfg_job, DOMAIN cfg_job.options)) < MaxFields
    /\ \E n \in OptionNames(PARSEABLE_OPTIONS), v \in FieldValues :
           /\ n \notin Populated(cfg_job, DOMAIN cfg_job.options)
           /\ cfg_job' = SetAttr(cfg_job, n, v)
    /\ calls' = NoCalls
    /\ cfg_result' = [kind |-> "none", option |-> <<>>]
    /\ UNCHANGED <<generator, n_calls, n_resets>>
    /\ UNCHANGED create_vars

\* with ExpectedCalls(generator, ...): Configure(generator, jobs_done_file)
ConfigureCall ==
    /\ pc = "idle"
    /\ n_calls < MaxCalls
    /\ \E order \in Orders(Populated(cfg_job, OptionNames(GENERATOR_OPTIONS))) :
           LET done == Configure(generator, cfg_job, order)
           IN  /\ calls' = done.counted
               /\ n_resets' = n_resets +
                      (IF Reset \in DOMAIN done.counted THEN Len(done.counted[Reset]) ELSE 0)
               /\ cfg_result' =
                      IF done.failed = <<>>
                      THEN [kind |-> "ok", option |-> <<>>]
                      ELSE [kind |-> "JobGeneratorAttributeError", option |-> done.failed]
    /\ n_calls' = n_calls + 1
    /\ UNCHANGED <<generator, cfg_job>>
    /\ UNCHANGED create_vars

NextConfigure ==
    \/ SetOption
    \/ ConfigureCall

SpecConfigure == InitConfigure /\ [][NextConfigure]_vars

----------------------------------------------------------------------------
\* What the specification's section 6 says of the options, for the claims.

SchemaForwardable ==
    {<<"boosttest_patterns">>, <<"build_batch_commands">>, <<"build_shell_commands">>,
     <<"description_regex">>, <<"jsunit_patterns">>, <<"junit_patterns">>,
     <<"notify_stash">>, <<"parameters">>}

SchemaControl == {<<"branch_patterns">>, <<"matrix">>}

SchemaShape(name) ==
    CASE name = <<"description_regex">> -> "str"
      [] name \in {<<"notify_stash">>, <<"matrix">>} -> "dict"
      [] OTHER -> "list"

\* The part of a key after its condition tokens, and the tokens.
RealName(key) == Last(Split(key, ":"))

ConditionTokens(key) == SubSeq(Split(key, ":"), 1, Len(Split(key, ":")) - 1)

Range(seq) == {seq[i] : i \in 1..Len(seq)}

TheMatrix == GetDefault(jd_data, <<"matrix">>, PyDict({}))

\* CreateMatrixRows has run.
RowsMade == row >= 1

\* Row r's job is finished: every key of its document has been handed out.
RowDone(r) == r \in 1..Len(jobs_done_jobs) /\ r < row

RECURSIVE SizeProduct(_, _)
SizeProduct(matrix_dict, names) ==
    IF names = {} THEN 1
    ELSE LET n == CHOOSE x \in names : TRUE
         IN  Len(Get(matrix_dict, n).items) * SizeProduct(matrix_dict, names \ {n})

\* Every choice of one value per variable, as a dict.
Combinations(matrix_dict) ==
    LET values == UNION {Range(e[2].items) : e \in matrix_dict.ents}
        picks  == {f \in [Keys(matrix_dict) -> values] :
                      \A n \in Keys(matrix_dict) : InList(f[n], Get(matrix_dict, n))}
    IN  {PyDict({<<n, f[n]>> : n \in Keys(matrix_dict)}) : f \in picks}

NoRepeatedValues(matrix_dict) ==
    \A e \in matrix_dict.ents :
        \A i, j \in 1..Len(e[2].items) : i # j => e[2].items[i] # e[2].items[j]

\* C1: CreateMatrixRows returns n1*...*nk rows, one for each combination of
\* one value per variable (a different row for each when no value-list
\* repeats a value), each row holding its combination's values split at the
\* commas; with no variables it returns one row with no bindings; and when
\* CreateFromYAML goes on to return, it returns that many jobs.
C1_RowsAreTheProduct ==
    RowsMade =>
        /\ Len(matrix_rows) = SizeProduct(TheMatrix, Keys(TheMatrix))
        /\ Len(value_combinations) = Len(matrix_rows)
        /\ Range(value_combinations) = Combinations(TheMatrix)
        /\ NoRepeatedValues(TheMatrix) =>
               \A r1, r2 \in 1..Len(matrix_rows) :
                   r1 # r2 => value_combinations[r1] # value_combinations[r2]
        /\ \A r \in 1..Len(matrix_rows) :
               /\ Keys(matrix_rows[r]) = Keys(TheMatrix)
               /\ \A n \in Keys(TheMatrix) :
                      Join([i \in 1..Len(Get(matrix_rows[r], n).items) |->
                               Get(matrix_rows[r], n).items[i].s], ",")
                          = Get(value_combinations[r], n).s
        /\ TheMatrix.ents = {} => matrix_rows = <<PyDict({})>>
        /\ result.kind = "return" =>
               Len(result.jobs) = SizeProduct(TheMatrix, Keys(TheMatrix))

\* A two-by-two matrix has given four jobs.
C1_Witness ==
    /\ pc = "done"
    /\ result.kind = "return"
    /\ Cardinality(Keys(TheMatrix)) = 2
    /\ Len(result.jobs) = 4

\* The condition token holds of the row made from the combination chosen:
\* it names a variable and one of the comma-separated parts of its value.
TokenHolds(token, chosen) ==
    LET parts == Split(token, "-")
    IN  /\ Len(parts) = 2
        /\ parts[1] \in Keys(chosen)
        /\ parts[2] \in Range(Split(Get(chosen, parts[1]).s, ","))

KeyApplies(key, chosen) ==
    \A i \in 1..Len(ConditionTokens(key)) : TokenHolds(ConditionTokens(key)[i], chosen)

\* C2: for every finished row and every key of its resolved document, the
\* key's value is set on the row's job iff each of the key's condition
\* tokens names one of the comma-separated parts of the row's value for
\* its variable (a key with no tokens is always set); so an option of the
\* job is set iff some key for it applies, and then to such a key's value.
C2_ConditionsDecide ==
    \A r \in 1..Len(jobs_done_jobs) :
        (RowDone(r) /\ formatted[r] # None) =>
            /\ \A key \in Keys(formatted[r]) :
                   key \in applied[r] <=> KeyApplies(key, value_combinations[r])
            /\ \A n \in DOMAIN jobs_done_jobs[r].options :
                   LET keys == {k \in Keys(formatted[r]) :
                                   RealName(k) = n /\ KeyApplies(k, value_combinations[r])}
                   IN  IF keys = {}
                       THEN jobs_done_jobs[r].options[n] = None
                       ELSE \E k \in keys :
                                jobs_done_jobs[r].options[n] = Get(formatted[r], k)

\* A finished row took an option through a value that is not the first of
\* its comma-separated parts, and another finished row was refused it.
C2_Witness ==
    LET key == <<"planet", "-", "venus", ":", "moon", "-", "io", ":", "description_regex">>
    IN  \E r1, r2 \in 1..Len(jobs_done_jobs) :
            /\ RowDone(r1) /\ RowDone(r2)
            /\ key \in applied[r1]
            /\ Get(value_combinations[r1], <<"planet">>).s = <<"mars", ",", "venus">>
            /\ formatted[r2] # None
            /\ key \in Keys(formatted[r2]) \ applied[r2]

UnknownKeys(d) == {k \in Keys(d) : RealName(k) \notin SchemaForwardable \cup SchemaControl}

MisshapedKeys(d) ==
    {k \in Keys(d) \ UnknownKeys(d) : Get(d, k).t # SchemaShape(RealName(k))}

TheDocument == YamlLoadBase(yaml_contents.entries)

\* C3: whatever the repository, a document with a key whose real name is
\* not in the option table, or with a key of the table whose value has
\* another shape than the table's, never gets past validation: the call
\* ends raising UnknownJobsDoneFileOption for such an unknown name or
\* JobsDoneFileTypeError for such a key (with the shapes got and expected),
\* the first for a document with unknown keys only, the second for one with
\* misshaped keys only, and returns no job list; no other document raises
\* either.
C3_ValidationRejects ==
    LET unknown   == UnknownKeys(TheDocument)
        misshaped == MisshapedKeys(TheDocument)
        exc       == result.problem.exc
    IN  /\ (yaml_contents.present /\ unknown \cup misshaped # {}) =>
               /\ pc \in {"load", "validate", "done"}
               /\ jobs_done_jobs = <<>>
               /\ pc = "done" =>
                      /\ result.kind = "raise"
                      /\ result.jobs = <<>>
                      /\ exc \in {"UnknownJobsDoneFileOption", "JobsDoneFileTypeError"}
                      /\ misshaped = {} => exc = "UnknownJobsDoneFileOption"
                      /\ unknown = {} => exc = "JobsDoneFileTypeError"
        /\ exc = "UnknownJobsDoneFileOption" =>
               \E k \in unknown : result.problem.option_name = RealName(k)
        /\ exc = "JobsDoneFileTypeError" =>
               \E k \in misshaped :
                   /\ result.problem.option_name = RealName(k)
                   /\ result.problem.obtained = Get(TheDocument, k).t
                   /\ result.problem.expected = SchemaShape(RealName(k))

\* A misshaped option was refused for a repository whose branch no pattern
\* of the document matches.
C3_Witness ==
    /\ pc = "done"
    /\ result.problem.exc = "JobsDoneFileTypeError"
    /\ <<"branch_patterns">> \in Keys(jd_data)
    /\ ~BranchAccepted(jd_data, repository.branch)

\* Some pattern matches the branch from its start, whatever follows.
PrefixAnchored(patterns, branch) ==
    \E i \in 1..Len(patterns) :
        \E k \in 0..Len(branch) : FullMatch(patterns[i].s, SubSeq(branch, 1, k))

ThePatterns ==
    IF <<"branch_patterns">> \in Keys(jd_data)
    THEN Get(jd_data, <<"branch_patterns">>).items
    ELSE <<PyStr(<<".*">>)>>

Returned == pc = "done" /\ result.kind = "return" /\ yaml_contents.present

SomeVariableEmpty == \E e \in TheMatrix.ents : e[2].items = <<>>

\* C4 as claimed: a validated document gives an empty job list iff no
\* pattern matches the branch from its start; with branch_patterns left out
\* jobs are always produced.
C4_EmptyIffNoPatternMatches ==
    Returned =>
        /\ result.jobs = <<>> <=> ~PrefixAnchored(ThePatterns, repository.branch)
        /\ <<"branch_patterns">> \notin Keys(jd_data) => result.jobs # <<>>

\* C4, amended: when CreateFromYAML returns for a validated document, the
\* job list is empty iff no pattern of branch_patterns (".*" alone when it
\* is left out) matches the branch from its start, or some matrix variable
\* has an empty value-list.
C4_EmptyIffNoMatchOrEmptyVariable ==
    Returned =>
        /\ result.jobs = <<>> <=>
               (~PrefixAnchored(ThePatterns, repository.branch) \/ SomeVariableEmpty)
        /\ (<<"branch_patterns">> \notin Keys(jd_data) /\ ~SomeVariableEmpty) =>
               result.jobs # <<>>

\* Jobs were returned for a branch that a pattern matches at its start and
\* no pattern matches as a whole.
C4_Witness ==
    /\ Returned
    /\ result.jobs # <<>>
    /\ <<"branch_patterns">> \in Keys(jd_data)
    /\ \A i \in 1..Len(ThePatterns) : ~FullMatch(ThePatterns[i].s, repository.branch)

\* The generator's own record of a method's calls in the last Configure.
CallsOf(method) == IF method \in DOMAIN calls THEN calls[method] ELSE <<>>

FieldOf(job, name) == IF name \in DOMAIN job.options THEN job.options[name] ELSE None

\* C5: after a Configure that succeeded, the method of each forwardable
\* option was called once, with the field's value, if the job's field is not
\* empty, and was not called if it is empty; the methods of branch_patterns
\* and matrix were not called.
C5_ForwardedOncePerOption ==
    cfg_result.kind = "ok" =>
        /\ \A n \in SchemaForwardable :
               IF FieldOf(cfg_job, n) # None
               THEN CallsOf(MethodName(n)) = <<FieldOf(cfg_job, n)>>
               ELSE CallsOf(MethodName(n)) = <<>>
        /\ \A n \in SchemaControl : CallsOf(MethodName(n)) = <<>>

\* Configure succeeded on a job with its matrix set and a forwardable option
\* set, for a generator that has a method for the matrix too.
C5_Witness ==
    /\ cfg_result.kind = "ok"
    /\ FieldOf(cfg_job, <<"matrix">>) # None
    /\ MethodName(<<"matrix">>) \in generator
    /\ \E n \in SchemaForwardable : Len(CallsOf(MethodName(n))) = 1

\* C6: every Configure call, failed ones and ones that forward nothing
\* included, calls Reset once: after any number of calls on a generator
\* there were as many Resets, one of them in the last call.
C6_ResetOncePerCall ==
    /\ n_resets = n_calls
    /\ cfg_result.kind # "none" => Len(CallsOf(Reset)) = 1

\* A second Configure on the same generator forwarded an option, and its
\* Reset was the second.
C6_Witness ==
    /\ n_calls = 2
    /\ n_resets = 2
    /\ cfg_result.kind = "ok"
    /\ \E n \in SchemaForwardable : Len(CallsOf(MethodName(n))) = 1

Unconfigurable(job, gen) ==
    {n \in SchemaForwardable : FieldOf(job, n) # None /\ MethodName(n) \notin gen}

\* C7: a Configure call fails, with JobGeneratorAttributeError, iff the job
\* has a forwardable field that is not empty and whose method the generator
\* lacks, and the error names such an option.
C7_FailsIffMethodMissing ==
    cfg_result.kind # "none" =>
        /\ cfg_result.kind = "JobGeneratorAttributeError"
               <=> Unconfigurable(cfg_job, generator) # {}
        /\ cfg_result.kind = "JobGeneratorAttributeError"
               => cfg_result.option \in Unconfigurable(cfg_job, generator)

\* Configure succeeded, forwarding an option, for a generator that lacks
\* the method of an option the job leaves empty.
C7_Witness ==
    /\ cfg_result.kind = "ok"
    /\ \E n \in SchemaForwardable : Len(CallsOf(MethodName(n))) = 1
    /\ \E n \in SchemaForwardable :
           FieldOf(cfg_job, n) = None /\ MethodName(n) \notin generator

EmptyJob(job) ==
    /\ \A n \in SchemaForwardable \cup SchemaControl :
           n \in DOMAIN job.options /\ job.options[n] = None
    /\ job.repository = repository
    /\ job.matrix_row = PyDict({})

RECURSIVE AllStrings(_)
\* Every string of a value: its scalars and the keys of its mappings.
AllStrings(v) ==
    CASE v.t = "str" -> {v.s}
      [] v.t = "list" -> UNION {AllStrings(v.items[i]) : i \in 1..Len(v.items)}
      [] v.t = "dict" -> Keys(v) \cup UNION {AllStrings(e[2]) : e \in v.ents}
      [] OTHER -> {}

\* The tokens of the {token} placeholders of a string.
TokensIn(s) == {s[i + 1] : i \in {j \in 1..(Len(s) - 2) : s[j] = "{" /\ s[j + 2] = "}"}}

\* The substitution context of row r has every token the document uses.
ContextHasAll(r) ==
    \A s \in AllStrings(jd_data) :
        \A token \in TokensIn(s) :
            <<token>> \in {<<"branch">>, <<"name">>} \cup Keys(value_combinations[r])

RECURSIVE SameStructure(_, _)
\* The same shapes and the same keys all the way down, and the same string
\* wherever the first value's string holds no placeholder.
SameStructure(a, b) ==
    /\ a.t = b.t
    /\ a.t = "str" => (TokensIn(a.s) = {} => a.s = b.s)
    /\ a.t = "list" =>
           /\ Len(a.items) = Len(b.items)
           /\ \A i \in 1..Len(a.items) : SameStructure(a.items[i], b.items[i])
    /\ a.t = "dict" =>
           /\ Keys(a) = Keys(b)
           /\ \A k \in Keys(a) : SameStructure(Get(a, k), Get(b, k))

\* C9 as claimed: for every row whose context has all the tokens used, the
\* document is resolved, and the resolved document has the keys and the
\* shapes of the document at every level and the same value wherever the
\* value held no placeholder.
C9_ResolutionKeepsStructure ==
    \A r \in 1..Len(formatted) :
        (jd_data.ents # {} /\ ContextHasAll(r)) =>
            /\ formatted[r] # None
            /\ SameStructure(jd_data, formatted[r])

\* The place of the last entry of the document whose key is for option n.
LastEntryFor(n) ==
    CHOOSE i \in 1..Len(yaml_contents.entries) :
        /\ RealName(yaml_contents.entries[i].key) = n
        /\ \A j \in (i + 1)..Len(yaml_contents.entries) :
               RealName(yaml_contents.entries[j].key) # n

\* C10 as claimed: in a finished row, when two or more keys of the document
\* are for the same option and all of them were applied, the job's field has
\* the value of the one written last in the document.
C10_LastInDocumentWins ==
    \A r \in 1..Len(jobs_done_jobs) :
        (RowDone(r) /\ formatted[r] # None) =>
            \A n \in SchemaForwardable \cup SchemaControl :
                LET keys == {yaml_contents.entries[i].key :
                                i \in {j \in 1..Len(yaml_contents.entries) :
                                          RealName(yaml_contents.entries[j].key) = n}}
                IN  (Cardinality(keys) >= 2 /\ keys \subseteq applied[r]) =>
                        jobs_done_jobs[r].options[n] =
                            Get(formatted[r], yaml_contents.entries[LastEntryFor(n)].key)

====
